---- MODULE Spec2Model ----
(***************************************************************************)
(* xhttp: the response lifecycle of one request (Node and browser          *)
(* variants of wait), the body materialization pipeline (resToComplete,    *)
(* resToString, resFromJson, resOnlyOk), bufferBody of lib/xhttp-node.js   *)
(* the request starters (req and streamingRequest in Node, start in the    *)
(* browser) with the merge of the query into the URL, and the promise-based *)
(* xhttp of lib/xhttp.js with its interceptors.                            *)
(*                                                                         *)
(* Strings that are bodies are sequences of code points, buffers are       *)
(* sequences of bytes; type and statusText are plain strings because the   *)
(* library only ever copies them.                                          *)
(***************************************************************************)
EXTENDS Integers, Sequences, FiniteSets, TLC

VARIABLES
  platform,    \* which module the request was made with: "node" or "browser"
  xhr,         \* browser: the XMLHttpRequest, with the handler wait installed
  waits,       \* browser: the promises returned by the calls of wait(req)
  listeners,   \* Node: events of the request that have a `once` listener of wait
  aborted,     \* Node: req.abort() has been called on the request
  tickQueue,   \* Node: events scheduled with process.nextTick (abort emits 'abort' there)
  promise,     \* Node: the promise returned by wait(req)
  history,     \* Node: events handled by wait's listeners, in order
  missed,      \* Node: events emitted while no listener for them was attached
  emits,       \* Node: number of events the transport has emitted so far
  clientAborts,\* the caller's req.abort() calls, with what had happened before each
  res0,        \* pipeline: the Response the stage functions start from
  stream,      \* pipeline: the readable stream that is the body of res0
  calls,       \* pipeline: the calls of stage functions made so far
  params,      \* starting: the Parameters (or options) a request starter is given
  started      \* starting: what the starter did with the request it opened

PipeVars == <<res0, stream, calls>>

StartVars == <<params, started>>

vars == <<platform, xhr, waits, listeners, aborted, tickQueue, promise, history, missed, emits,
          clientAborts, res0, stream, calls, params, started>>

(***************************************************************************)
(* Bounds                                                                  *)
(***************************************************************************)
MaxEmits == 3
MaxAbortCalls == 2
MaxWaits == 2
MaxChunks == 2
MaxCalls == 3

(***************************************************************************)
(* Values                                                                  *)
(***************************************************************************)
Events == {"response", "error", "timeout", "abort", "aborted"}

StatusCodes == {199, 200, 299, 300, 404, 500}

StatusMessage(code) ==
  CASE code = 200 -> "OK"
    [] code = 404 -> "Not Found"
    [] code = 500 -> "Internal Server Error"
    [] OTHER      -> ""

ErrorValues == {"ECONNREFUSED", "ECONNRESET"}

NoHeaders == <<>>
HeaderValues == {NoHeaders, <<"content-type">>}

StrBody(s) == [kind |-> "str", val |-> s]
BufBody(b) == [kind |-> "buf", val |-> b]
StreamBody == [kind |-> "stream", val |-> <<>>]
NullBody   == [kind |-> "null", val |-> <<>>]

\* 'request timeout'
TxtTimeout == <<114, 101, 113, 117, 101, 115, 116, 32, 116, 105, 109, 101, 111, 117, 116>>
\* 'request aborted by client'
TxtClientAbort == <<114, 101, 113, 117, 101, 115, 116, 32, 97, 98, 111, 114, 116, 101, 100,
                    32, 98, 121, 32, 99, 108, 105, 101, 110, 116>>
\* 'request aborted by remote'
TxtRemoteAbort == <<114, 101, 113, 117, 101, 115, 116, 32, 97, 98, 111, 114, 116, 101, 100,
                    32, 98, 121, 32, 114, 101, 109, 111, 116, 101>>

NodeResponses ==
  [statusCode : StatusCodes, headers : HeaderValues]

(***************************************************************************)
(* Response constructors of the Node module                                *)
(***************************************************************************)
isStatusOkLoose(status) == status >= 200 /\ status <= 300

isStatusOk(status) == status >= 200 /\ status <= 299

streamRes(nodeRes) ==
  [ type       |-> "load",
    ok         |-> isStatusOk(nodeRes.statusCode),
    complete   |-> FALSE,
    status     |-> nodeRes.statusCode,
    statusText |-> StatusMessage(nodeRes.statusCode),
    headers    |-> nodeRes.headers,
    body       |-> StreamBody ]

timeoutRes ==
  [ type       |-> "timeout",
    ok         |-> FALSE,
    complete   |-> FALSE,
    status     |-> 408,
    statusText |-> "request timeout",
    headers    |-> NoHeaders,
    body       |-> StrBody(TxtTimeout) ]

clientAbortResComplete ==
  [ type       |-> "abort",
    ok         |-> FALSE,
    complete   |-> TRUE,
    status     |-> 0,
    statusText |-> "aborted by client",
    headers    |-> NoHeaders,
    body       |-> StrBody(TxtClientAbort) ]

clientAbortRes ==
  [ type       |-> "abort",
    ok         |-> FALSE,
    complete   |-> FALSE,
    status     |-> 0,
    statusText |-> "aborted by client",
    headers    |-> NoHeaders,
    body       |-> StrBody(TxtClientAbort) ]

remoteAbortResSameType ==
  [ clientAbortRes EXCEPT
      !.statusText = "aborted by remote",
      !.body       = StrBody(TxtRemoteAbort) ]

remoteAbortRes ==
  [ clientAbortRes EXCEPT
      !.type       = "aborted",
      !.statusText = "aborted by remote",
      !.body       = StrBody(TxtRemoteAbort) ]

(***************************************************************************)
(* Promise: settles once; later done/fail calls change nothing             *)
(***************************************************************************)
NoPromise == [state |-> "none",    value |-> <<>>]
Pending   == [state |-> "pending", value |-> <<>>]

Resolved(val) == [state |-> "resolved", value |-> val]
Rejected(err) == [state |-> "rejected", value |-> err]

doneOverwrite(p, val) == IF p.state = "none" THEN p ELSE Resolved(val)

done(p, val) == IF p.state = "pending" THEN Resolved(val) ELSE p

fail(p, err) == IF p.state = "pending" THEN Rejected(err) ELSE p

(***************************************************************************)
(* http.ClientRequest.abort(): the first call schedules the 'abort' event  *)
(* on the next tick; later calls do nothing                                *)
(***************************************************************************)
abortTicks(wasAborted, queue) ==
  IF wasAborted THEN queue ELSE Append(queue, "abort")

(***************************************************************************)
(* Node: wait(req) and its five listeners                                  *)
(***************************************************************************)
NodeIdle ==
  /\ listeners = {}
  /\ aborted = FALSE
  /\ tickQueue = <<>>
  /\ promise = NoPromise
  /\ emits = 0

NodeVars == <<listeners, aborted, tickQueue, promise, emits>>

wait ==
  /\ platform = "node"
  /\ promise.state = "none"
  /\ listeners' = Events
  /\ promise' = Pending
  /\ UNCHANGED <<StartVars, PipeVars, platform, xhr, waits, aborted, tickQueue, history, missed, emits, clientAborts>>

\* An event with no listener attached goes nowhere.
Unheard(ev) ==
  /\ ev \notin listeners
  /\ missed' = Append(missed, ev)
  /\ UNCHANGED <<listeners, promise, history>>

Heard(ev, payload) ==
  /\ ev \in listeners
  /\ listeners' = listeners \ {ev}
  /\ history' = Append(history, [type |-> ev, payload |-> payload])
  /\ UNCHANGED missed

onNodeRes(val) ==
  /\ Heard("response", val)
  /\ promise' = done(promise, streamRes(val))
  /\ UNCHANGED <<aborted, tickQueue>>

onNodeReqErrorSyncAbort(err) ==
  /\ Heard("error", err)
  /\ aborted' = TRUE
  /\ tickQueue' = tickQueue
  /\ promise' = fail(done(promise, clientAbortRes), err)

onNodeReqError(err) ==
  /\ Heard("error", err)
  /\ aborted' = TRUE
  /\ tickQueue' = abortTicks(aborted, tickQueue)
  /\ promise' = fail(promise, err)

onNodeReqTimeoutRejects ==
  /\ Heard("timeout", <<>>)
  /\ promise' = fail(promise, "timeout")
  /\ UNCHANGED <<aborted, tickQueue>>

onNodeReqTimeoutAborts ==
  /\ Heard("timeout", <<>>)
  /\ promise' = done(promise, timeoutRes)
  /\ aborted' = TRUE
  /\ tickQueue' = abortTicks(aborted, tickQueue)

onNodeReqTimeout ==
  /\ Heard("timeout", <<>>)
  /\ promise' = done(promise, timeoutRes)
  /\ UNCHANGED <<aborted, tickQueue>>

onNodeReqAbortedByClientAlways ==
  /\ Heard("abort", <<>>)
  /\ promise' = Resolved(clientAbortRes)

onNodeReqAbortedByClient ==
  /\ Heard("abort", <<>>)
  /\ promise' = done(promise, clientAbortRes)

onNodeReqAbortedByRemote ==
  /\ Heard("aborted", <<>>)
  /\ promise' = done(promise, remoteAbortRes)
  /\ UNCHANGED <<aborted, tickQueue>>

\* The transport emits its events from I/O callbacks, which run only when the
\* next-tick queue is empty.
CanEmit == platform = "node" /\ tickQueue = <<>> /\ emits < MaxEmits

EmitResponse ==
  /\ CanEmit
  /\ emits' = emits + 1
  /\ UNCHANGED <<StartVars, PipeVars, platform, xhr, waits, clientAborts>>
  /\ \/ \E val \in NodeResponses : onNodeRes(val)
     \/ Unheard("response") /\ UNCHANGED <<aborted, tickQueue>>

EmitError ==
  /\ CanEmit
  /\ emits' = emits + 1
  /\ UNCHANGED <<StartVars, PipeVars, platform, xhr, waits, clientAborts>>
  /\ \/ \E err \in ErrorValues : onNodeReqError(err)
     \/ Unheard("error") /\ UNCHANGED <<aborted, tickQueue>>

EmitTimeout ==
  /\ CanEmit
  /\ emits' = emits + 1
  /\ UNCHANGED <<StartVars, PipeVars, platform, xhr, waits, clientAborts>>
  /\ \/ onNodeReqTimeout
     \/ Unheard("timeout") /\ UNCHANGED <<aborted, tickQueue>>

EmitAborted ==
  /\ CanEmit
  /\ emits' = emits + 1
  /\ UNCHANGED <<StartVars, PipeVars, platform, xhr, waits, clientAborts>>
  /\ \/ onNodeReqAbortedByRemote
     \/ Unheard("aborted") /\ UNCHANGED <<aborted, tickQueue>>

\* The next tick after req.abort(): 'abort' is emitted on the request.
EmitAbort ==
  /\ platform = "node"
  /\ tickQueue # <<>>
  /\ Head(tickQueue) = "abort"
  /\ tickQueue' = Tail(tickQueue)
  /\ UNCHANGED <<StartVars, PipeVars, platform, xhr, waits, aborted, emits, clientAborts>>
  /\ \/ onNodeReqAbortedByClient
     \/ Unheard("abort")

\* The caller cancels: req.abort().  clientAborts records what the request
\* had seen and how the promise stood when the call was made.
ClientAbort ==
  /\ platform = "node"
  /\ Len(clientAborts) < MaxAbortCalls
  /\ aborted' = TRUE
  /\ tickQueue' = abortTicks(aborted, tickQueue)
  /\ clientAborts' = Append(clientAborts,
       [seen |-> Len(history) + Len(missed), before |-> <<promise>>])
  /\ UNCHANGED <<StartVars, PipeVars, platform, xhr, waits, listeners, promise, history, missed, emits>>

(***************************************************************************)
(* Browser: the XMLHttpRequest, wait(req) and eventToRes                   *)
(***************************************************************************)
UNSENT == 0
OPENED == 1
DONE == 4

\* 'found'
TxtFound == <<102, 111, 117, 110, 100>>

ResponseTexts == {<<>>, TxtFound}

\* req(params): the request is constructed, opened and sent; the mock of the
\* tests holds the pending outcome of send() or abort() in `delayed`.
XhrStarted ==
  [ readyState   |-> OPENED,
    status       |-> 0,
    statusText   |-> "",
    responseText |-> <<>>,
    resHead      |-> NoHeaders,
    delayed      |-> "load",
    handler      |-> 0 ]

NoXhr == [XhrStarted EXCEPT !.readyState = UNSENT, !.delayed = "none"]

\* setMockRes({}): what a request that failed or was aborted reports.
xhrNoResponse(req) ==
  [req EXCEPT !.status = 0, !.statusText = "", !.responseText = <<>>,
              !.resHead = NoHeaders]

isEvent(event) == event.type \in {"load", "abort", "error", "timeout"} /\ event.target = "req"

eventToRes(event, req) ==
  [ type       |-> event.type,
    ok         |-> isStatusOk(req.status),
    complete   |-> req.readyState = DONE,
    status     |-> req.status,
    statusText |-> req.statusText,
    headers    |-> req.resHead,
    body       |-> StrBody(req.responseText) ]

NewWait == [inner |-> Pending, outer |-> Pending]

\* .then(eventToRes): runs once the inner promise holds an event, with the
\* request as it is when the dispatching callback has returned.
thenEventToRes(w, inner, req) ==
  IF inner = w.inner THEN w.outer
  ELSE IF isEvent(inner.value)
       THEN done(w.outer, eventToRes(inner.value, req))
       ELSE fail(w.outer, "expected event to satisfy test isEvent")

initWaitFailOnError(w, event, req) ==
  IF event.type = "error"
  THEN [inner |-> w.inner, outer |-> fail(w.outer, event)]
  ELSE LET inner == done(w.inner, event)
       IN  [inner |-> inner, outer |-> thenEventToRes(w, inner, req)]

initWaitDropsEvent(w, event, req) == w

\* The handler that wait installed as onload, onabort, onerror and ontimeout.
initWaitDone(w, event, req) ==
  LET inner == done(w.inner, event)
  IN  [inner |-> inner, outer |-> thenEventToRes(w, inner, req)]

dispatchEventToAll(type, req) ==
  LET event == [type |-> type, target |-> "req"]
  IN  IF req.handler = 0
      THEN /\ missed' = Append(missed, type)
           /\ UNCHANGED <<waits, history>>
      ELSE /\ waits' = [k \in 1..Len(waits) |-> initWaitDone(waits[k], event, req)]
           /\ history' = Append(history, [type |-> type, payload |-> req.handler])
           /\ UNCHANGED missed

\* The request dispatches an event of the given type to its on<type> property.
dispatchEvent(type, req) ==
  LET event == [type |-> type, target |-> "req"]
  IN  IF req.handler = 0
      THEN /\ missed' = Append(missed, type)
           /\ UNCHANGED <<waits, history>>
      ELSE /\ waits' = [waits EXCEPT ![req.handler] = initWaitDone(@, event, req)]
           /\ history' = Append(history, [type |-> type, payload |-> req.handler])
           /\ UNCHANGED missed

BrowserWait ==
  /\ platform = "browser"
  /\ Len(waits) < MaxWaits
  /\ waits' = Append(waits, NewWait)
  /\ xhr' = [xhr EXCEPT !.handler = Len(waits) + 1]
  /\ UNCHANGED <<StartVars, PipeVars, platform, NodeVars, history, missed, clientAborts>>

XhrLoad ==
  /\ platform = "browser"
  /\ xhr.delayed = "load"
  /\ \E st \in StatusCodes, txt \in ResponseTexts, hd \in HeaderValues :
       /\ xhr' = [xhr EXCEPT !.readyState = DONE, !.status = st,
                             !.statusText = StatusMessage(st),
                             !.responseText = txt, !.resHead = hd,
                             !.delayed = "none"]
       /\ dispatchEvent("load", xhr')
  /\ UNCHANGED <<StartVars, PipeVars, platform, NodeVars, clientAborts>>

XhrFail(type) ==
  /\ platform = "browser"
  /\ xhr.delayed = "load"
  /\ xhr' = [xhrNoResponse(xhr) EXCEPT !.readyState = DONE, !.delayed = "none"]
  /\ dispatchEvent(type, xhr')
  /\ UNCHANGED <<StartVars, PipeVars, platform, NodeVars, clientAborts>>

XhrError == XhrFail("error")

XhrTimeout == XhrFail("timeout")

\* The caller cancels: req.abort() drops the pending outcome and schedules
\* the abort.
XhrAbortCall ==
  /\ platform = "browser"
  /\ Len(clientAborts) < MaxAbortCalls
  /\ xhr' = [xhr EXCEPT !.delayed = "abort"]
  /\ clientAborts' = Append(clientAborts,
       [seen |-> Len(history) + Len(missed), before |-> waits])
  /\ UNCHANGED <<StartVars, PipeVars, platform, NodeVars, waits, history, missed>>

XhrAbort ==
  /\ platform = "browser"
  /\ xhr.delayed = "abort"
  /\ xhr' = [xhrNoResponse(xhr) EXCEPT !.delayed = "none"]
  /\ dispatchEvent("abort", xhr')
  /\ UNCHANGED <<StartVars, PipeVars, platform, NodeVars, clientAborts>>

(***************************************************************************)
(* The body pipeline of the Node module: bufferStream and resToComplete    *)
(***************************************************************************)
NoRes == [type |-> "none"]

\* Errors are records; a ResErr has more fields than a plain Error.
NoError == [name |-> "none"]

Error(message) == [name |-> "Error", message |-> message]

ECONNRESET == Error("ECONNRESET")

SyntaxError == [name |-> "SyntaxError", message |-> "Unexpected token in JSON"]

NoStream == [pending |-> <<>>, emitted |-> <<>>, error |-> NoError, state |-> "none"]

NoParams == [starter |-> "none"]
NotStarted == [state |-> "none"]

StartIdle ==
  /\ params = NoParams
  /\ started = NotStarted

PipeIdle ==
  /\ res0 = NoRes
  /\ stream = NoStream
  /\ calls = <<>>

\* Chunks a stream can emit: the strings 'a' and U+00E9, the bytes of 'b' and
\* of U+00E9 in UTF-8.
ChunkValues ==
  {StrBody(<<97>>), StrBody(<<233>>), BufBody(<<98>>), BufBody(<<195, 169>>)}

RECURSIVE SeqsUpTo(_, _)
SeqsUpTo(S, n) ==
  IF n = 0 THEN {<<>>}
  ELSE LET shorter == SeqsUpTo(S, n - 1)
       IN  shorter \cup {Append(q, x) : q \in shorter, x \in S}

isStr(val) == val.kind = "str"

isBuffer(val) == val.kind = "buf"

isReadableStream(val) == val.kind = "stream"

\* Buffer.from(string): the UTF-8 bytes of the code points.
RECURSIVE utf8(_)
utf8(str) ==
  IF str = <<>> THEN <<>>
  ELSE LET c == Head(str)
       IN  (IF c < 128 THEN <<c>>
            ELSE IF c < 2048 THEN <<192 + (c \div 64), 128 + (c % 64)>>
            ELSE <<224 + (c \div 4096), 128 + ((c \div 64) % 64), 128 + (c % 64)>>)
           \o utf8(Tail(str))

toBuffer(val) == IF isBuffer(val) THEN val ELSE BufBody(utf8(val.val))

RECURSIVE joinVals(_)
joinVals(chunks) ==
  IF chunks = <<>> THEN <<>> ELSE Head(chunks).val \o joinVals(Tail(chunks))

concatChunksAlwaysBytes(chunks) ==
  BufBody(joinVals([i \in 1..Len(chunks) |-> toBuffer(chunks[i])]))

concatChunks(chunks) ==
  IF \A i \in 1..Len(chunks) : isStr(chunks[i]) THEN StrBody(joinVals(chunks))
  ELSE IF \A i \in 1..Len(chunks) : isBuffer(chunks[i]) THEN BufBody(joinVals(chunks))
  ELSE BufBody(joinVals([i \in 1..Len(chunks) |-> toBuffer(chunks[i])]))

\* resToComplete, line 73: the bodies that are returned as they are.
passesThroughNullOnly(body) == body.kind = "null"

passesThrough(body) == body.kind = "null" \/ isStr(body) \/ isBuffer(body)

\* resToComplete, line 73: what is returned for such a body.
returnedAsIsMarkedComplete(res) == [res EXCEPT !.complete = TRUE]

returnedAsIs(res) == res

\* resToComplete, line 76: what is returned once the stream is buffered.
completedWithBodyOnly(res, body) == [res EXCEPT !.body = body]

completedWith(res, body) == [res EXCEPT !.complete = TRUE, !.body = body]

(***************************************************************************)
(* Values of JavaScript that a body can hold once it is decoded            *)
(***************************************************************************)
NumVal(n) == [kind |-> "num", val |-> <<n>>]

BoolVal(b) == [kind |-> "bool", val |-> <<b>>]

ArrVal(elems) == [kind |-> "arr", val |-> elems]

\* An object: its entries <<key, value>> in insertion order.
ObjVal(entries) == [kind |-> "obj", val |-> entries]

\* The code points of the words that type and statusText can be.
Text(word) ==
  CASE word = "load" -> <<108, 111, 97, 100>>
    [] word = "timeout" -> <<116, 105, 109, 101, 111, 117, 116>>
    [] word = "abort" -> <<97, 98, 111, 114, 116>>
    [] word = "aborted" -> <<97, 98, 111, 114, 116, 101, 100>>
    [] word = "error" -> <<101, 114, 114, 111, 114>>
    [] word = "OK" -> <<79, 75>>
    [] word = "Not Found" -> <<78, 111, 116, 32, 70, 111, 117, 110, 100>>
    [] word = "Internal Server Error" -> <<73, 110, 116, 101, 114, 110, 97, 108, 32, 83, 101, 114, 118, 101, 114, 32, 69, 114, 114, 111, 114>>
    [] word = "request timeout" -> <<114, 101, 113, 117, 101, 115, 116, 32, 116, 105, 109, 101, 111, 117, 116>>
    [] word = "aborted by client" -> <<97, 98, 111, 114, 116, 101, 100, 32, 98, 121, 32, 99, 108, 105, 101, 110, 116>>
    [] word = "aborted by remote" -> <<97, 98, 111, 114, 116, 101, 100, 32, 98, 121, 32, 114, 101, 109, 111, 116, 101>>
    [] OTHER -> <<>>

(***************************************************************************)
(* String(buffer): the bytes decoded as UTF-8, U+FFFD for what is no       *)
(* character                                                               *)
(***************************************************************************)
isContinuation(b) == b >= 128 /\ b <= 191

RECURSIVE utf8Decode(_)
utf8Decode(bytes) ==
  IF bytes = <<>> THEN <<>>
  ELSE LET b == Head(bytes)
           n == Len(bytes)
       IN  IF b < 128 THEN <<b>> \o utf8Decode(Tail(bytes))
           ELSE IF b >= 194 /\ b <= 223 /\ n >= 2 /\ isContinuation(bytes[2])
           THEN <<(b - 192) * 64 + (bytes[2] - 128)>> \o utf8Decode(SubSeq(bytes, 3, n))
           ELSE IF /\ b >= 224 /\ b <= 239 /\ n >= 3
                   /\ isContinuation(bytes[2]) /\ isContinuation(bytes[3])
           THEN <<(b - 224) * 4096 + (bytes[2] - 128) * 64 + (bytes[3] - 128)>>
                  \o utf8Decode(SubSeq(bytes, 4, n))
           ELSE <<65533>> \o utf8Decode(Tail(bytes))

StringLatin1(val) == IF isBuffer(val) THEN StrBody(val.val) ELSE val

String(val) == IF isBuffer(val) THEN StrBody(utf8Decode(val.val)) ELSE val

\* resToString, line 81: (body && String(body)) || ''
stringOrEmpty(body) == IF body.kind = "null" THEN StrBody(<<>>) ELSE String(body)

stringifiedToBuffer(res) == [res EXCEPT !.body = toBuffer(stringOrEmpty(@))]

stringified(res) == [res EXCEPT !.body = stringOrEmpty(@)]

(***************************************************************************)
(* JSON.stringify and JSON.parse, for null, booleans, integers, strings,   *)
(* arrays and objects                                                      *)
(***************************************************************************)
TxtNull == <<110, 117, 108, 108>>
TxtTrue == <<116, 114, 117, 101>>
TxtFalse == <<102, 97, 108, 115, 101>>

RECURSIVE digits(_)
digits(n) == IF n < 10 THEN <<48 + n>> ELSE Append(digits(n \div 10), 48 + (n % 10))

RECURSIVE escaped(_)
escaped(str) ==
  IF str = <<>> THEN <<>>
  ELSE LET c == Head(str)
       IN  (CASE c = 34 -> <<92, 34>>
              [] c = 92 -> <<92, 92>>
              [] c = 10 -> <<92, 110>>
              [] OTHER  -> <<c>>) \o escaped(Tail(str))

quoted(str) == <<34>> \o escaped(str) \o <<34>>

RECURSIVE JSONstringify(_)
RECURSIVE stringifyElements(_)
RECURSIVE stringifyEntries(_)
JSONstringify(x) ==
  CASE x.kind = "null" -> TxtNull
    [] x.kind = "bool" -> IF x.val[1] THEN TxtTrue ELSE TxtFalse
    [] x.kind = "num"  -> IF x.val[1] < 0 THEN <<45>> \o digits(0 - x.val[1])
                          ELSE digits(x.val[1])
    [] x.kind = "str"  -> quoted(x.val)
    [] x.kind = "arr"  -> <<91>> \o stringifyElements(x.val) \o <<93>>
    [] x.kind = "obj"  -> <<123>> \o stringifyEntries(x.val) \o <<125>>

stringifyElements(elems) ==
  IF elems = <<>> THEN <<>>
  ELSE JSONstringify(Head(elems))
         \o (IF Tail(elems) = <<>> THEN <<>> ELSE <<44>> \o stringifyElements(Tail(elems)))

stringifyEntries(entries) ==
  IF entries = <<>> THEN <<>>
  ELSE quoted(Head(entries)[1]) \o <<58>> \o JSONstringify(Head(entries)[2])
         \o (IF Tail(entries) = <<>> THEN <<>> ELSE <<44>> \o stringifyEntries(Tail(entries)))

ParseFail == [ok |-> FALSE, val |-> NullBody, rest |-> <<>>]

Parsed(val, rest) == [ok |-> TRUE, val |-> val, rest |-> rest]

startsWith(str, prefix) ==
  Len(str) >= Len(prefix) /\ SubSeq(str, 1, Len(prefix)) = prefix

drop(str, n) == SubSeq(str, n + 1, Len(str))

RECURSIVE skipWs(_)
skipWs(str) ==
  IF str # <<>> /\ Head(str) \in {9, 10, 13, 32} THEN skipWs(Tail(str)) ELSE str

isDigit(c) == c >= 48 /\ c <= 57

RECURSIVE parseDigits(_, _)
parseDigits(str, acc) ==
  IF str # <<>> /\ isDigit(Head(str))
  THEN parseDigits(Tail(str), acc * 10 + (Head(str) - 48))
  ELSE Parsed(NumVal(acc), str)

parseNumber(str) ==
  LET neg == Head(str) = 45
      t   == IF neg THEN Tail(str) ELSE str
  IN  IF t = <<>> \/ ~isDigit(Head(t)) THEN ParseFail
      ELSE IF Head(t) = 48 /\ Len(t) >= 2 /\ isDigit(t[2]) THEN ParseFail
      ELSE LET r == parseDigits(t, 0)
           IN  IF neg THEN Parsed(NumVal(0 - r.val.val[1]), r.rest) ELSE r

\* The rest of a string literal whose opening quote has been read.
RECURSIVE parseString(_, _)
parseString(str, acc) ==
  IF str = <<>> THEN ParseFail
  ELSE LET c == Head(str)
       IN  IF c = 34 THEN Parsed(StrBody(acc), Tail(str))
           ELSE IF c = 92
           THEN IF Len(str) < 2 THEN ParseFail
                ELSE IF str[2] \in {34, 47, 92}
                THEN parseString(drop(str, 2), Append(acc, str[2]))
                ELSE IF str[2] = 110 THEN parseString(drop(str, 2), Append(acc, 10))
                ELSE ParseFail
           ELSE IF c < 32 THEN ParseFail
           ELSE parseString(Tail(str), Append(acc, c))

RECURSIVE parseValue(_)
RECURSIVE parseElements(_, _)
RECURSIVE parseEntries(_, _)
parseValue(text) ==
  LET str == skipWs(text)
  IN  IF str = <<>> THEN ParseFail
      ELSE IF startsWith(str, TxtNull) THEN Parsed(NullBody, drop(str, Len(TxtNull)))
      ELSE IF startsWith(str, TxtTrue) THEN Parsed(BoolVal(TRUE), drop(str, Len(TxtTrue)))
      ELSE IF startsWith(str, TxtFalse) THEN Parsed(BoolVal(FALSE), drop(str, Len(TxtFalse)))
      ELSE IF Head(str) = 34 THEN parseString(Tail(str), <<>>)
      ELSE IF Head(str) = 91
      THEN LET t == skipWs(Tail(str))
           IN  IF t # <<>> /\ Head(t) = 93 THEN Parsed(ArrVal(<<>>), Tail(t))
               ELSE parseElements(t, <<>>)
      ELSE IF Head(str) = 123
      THEN LET t == skipWs(Tail(str))
           IN  IF t # <<>> /\ Head(t) = 125 THEN Parsed(ObjVal(<<>>), Tail(t))
               ELSE parseEntries(t, <<>>)
      ELSE IF Head(str) = 45 \/ isDigit(Head(str)) THEN parseNumber(str)
      ELSE ParseFail

parseElements(text, acc) ==
  LET r == parseValue(text)
      t == skipWs(r.rest)
  IN  IF ~r.ok \/ t = <<>> THEN ParseFail
      ELSE IF Head(t) = 44 THEN parseElements(Tail(t), Append(acc, r.val))
      ELSE IF Head(t) = 93 THEN Parsed(ArrVal(Append(acc, r.val)), Tail(t))
      ELSE ParseFail

parseEntries(text, acc) ==
  LET str == skipWs(text)
  IN  IF str = <<>> \/ Head(str) # 34 THEN ParseFail
      ELSE LET k == parseString(Tail(str), <<>>)
               t == skipWs(k.rest)
           IN  IF ~k.ok \/ t = <<>> \/ Head(t) # 58 THEN ParseFail
               ELSE LET v == parseValue(Tail(t))
                        u == skipWs(v.rest)
                    IN  IF ~v.ok \/ u = <<>> THEN ParseFail
                        ELSE IF Head(u) = 44
                        THEN parseEntries(Tail(u), Append(acc, <<k.val.val, v.val>>))
                        ELSE IF Head(u) = 125
                        THEN Parsed(ObjVal(Append(acc, <<k.val.val, v.val>>)), Tail(u))
                        ELSE ParseFail

\* JSON.parse(text): ok is false where it throws a SyntaxError.
JSONparse(text) ==
  LET r == parseValue(text)
  IN  IF r.ok /\ skipWs(r.rest) = <<>> THEN r ELSE ParseFail

maybeJsonParse(val) ==
  IF isStr(val)
  THEN (IF val.val # <<>> THEN JSONparse(val.val) ELSE Parsed(NullBody, <<>>))
  ELSE Parsed(val, <<>>)

(***************************************************************************)
(* ResErr and the preview of the body in its message                       *)
(***************************************************************************)
limit == 128

\* ' ...'
Ellipsis == <<32, 46, 46, 46>>

previewWhole(str) == str

preview(str) == IF Len(str) > limit THEN SubSeq(str, 1, limit) \o Ellipsis ELSE str

\* 'HTTP error'
TxtHttpError == <<72, 84, 84, 80, 32, 101, 114, 114, 111, 114>>
\* 'unknown'
TxtUnknown == <<117, 110, 107, 110, 111, 119, 110>>

\* ResErr, line 115: status || statusText
ResErrStat(res) == IF res.status # 0 THEN digits(res.status) ELSE Text(res.statusText)

\* ResErr, line 116: (isStr(body) && preview(body)) || type || 'unknown'
ResErrMsg(res) ==
  IF isStr(res.body) /\ preview(res.body.val) # <<>> THEN preview(res.body.val)
  ELSE IF Text(res.type) # <<>> THEN Text(res.type)
  ELSE TxtUnknown

ResErrHead(res) ==
  TxtHttpError
    \o (IF ResErrStat(res) # <<>> THEN <<32>> \o ResErrStat(res) ELSE <<>>)
    \o <<58, 32>>

ResErr(res) ==
  [ name       |-> "ResErr",
    message    |-> ResErrHead(res) \o ResErrMsg(res),
    status     |-> res.status,
    statusText |-> res.statusText,
    res        |-> res ]

(***************************************************************************)
(* The stage functions of the Node module and the calls made of them       *)
(***************************************************************************)
DoneCalls == {i \in 1..Len(calls) : calls[i].state = "done"}

\* The Response the latest call that returned has produced.
LatestRes ==
  IF DoneCalls = {} THEN res0
  ELSE calls[CHOOSE i \in DoneCalls : \A j \in DoneCalls : j <= i].out

\* The Responses a stage function can be given.  In a chain each function is
\* given what the one before it returned, once that one has settled;
\* otherwise it is given the first Response or any Response an earlier call
\* has returned, at any time.
StageInputs ==
  IF platform = "chain"
  THEN IF \E i \in 1..Len(calls) : calls[i].state = "running" THEN {} ELSE {LatestRes}
  ELSE {res0} \cup {calls[i].out : i \in DoneCalls}

Listening == {i \in 1..Len(calls) : calls[i].listening}

\* A call of a stage function: its argument, how it stands, what it returned
\* or threw, and for a call that buffers the stream the chunks it has heard
\* and how many the stream had emitted before it listened.
Call(stage, res, state, out, err) ==
  [ stage |-> stage, in |-> res, state |-> state, out |-> out, err |-> err,
    chunks |-> <<>>, listening |-> FALSE, late |-> 0 ]

Returned(stage, res, out) == Call(stage, res, "done", out, NoError)

Threw(stage, res, err) == Call(stage, res, "failed", NoRes, err)

BufferingReplaysEnd(stage, res) ==
  IF stream.state = "ended"
  THEN Returned(stage, res, completedWith(res, concatChunks(stream.emitted)))
  ELSE [ Call(stage, res, "running", NoRes, NoError) EXCEPT
           !.listening = TRUE, !.late = Len(stream.emitted) ]

\* bufferStream(stream): the listeners are attached and the promise is pending.
Buffering(stage, res) ==
  [ Call(stage, res, "running", NoRes, NoError) EXCEPT
      !.listening = TRUE, !.late = Len(stream.emitted) ]

\* resToComplete(res), up to the first await.
resToCompleteStart(stage, res) ==
  IF passesThrough(res.body) THEN Returned(stage, res, returnedAsIs(res))
  ELSE IF isReadableStream(res.body) THEN Buffering(stage, res)
  ELSE Threw(stage, res, Error("expected body to satisfy test isReadableStream"))

\* What a call that awaited bufferStream returns: resToComplete line 76, and
\* for resToString line 81 after it.
buffered(call, body) ==
  IF call.stage \in {"resToString", "resNormal"}
  THEN stringified(completedWith(call.in, body))
  ELSE completedWith(call.in, body)

\* resToString(res), up to the first await that waits.
resToStringStart(res) ==
  LET call == resToCompleteStart("resToString", res)
  IN  IF call.state = "done" THEN [call EXCEPT !.out = stringified(@)] ELSE call

\* {...rest, bodyText: body, body: ...}
withBodyText(res, text, body) ==
  [ key \in DOMAIN res \cup {"bodyText"} |->
      IF key = "bodyText" THEN text
      ELSE IF key = "body" THEN body
      ELSE res[key] ]

resFromJsonCall(res) ==
  LET parsed == maybeJsonParse(res.body)
  IN  IF parsed.ok
      THEN Returned("resFromJson", res, withBodyText(res, res.body, parsed.val))
      ELSE Threw("resFromJson", res, SyntaxError)

resOnlyOkCallNeverThrows(res) == Returned("resOnlyOk", res, res)

resOnlyOkCall(res) ==
  IF res.ok THEN Returned("resOnlyOk", res, res)
  ELSE Threw("resOnlyOk", res, ResErr(res))

resNormalCallDrainsFirst(res) == [resToStringStart(res) EXCEPT !.stage = "resNormal"]

\* resNormal(res): resToString(resOnlyOk(res)), the argument first.
resNormalCall(res) ==
  LET checked == resOnlyOkCall(res)
  IN  IF checked.state = "failed" THEN [checked EXCEPT !.stage = "resNormal"]
      ELSE [resToStringStart(checked.out) EXCEPT !.stage = "resNormal"]

PipePlatforms == {"pipe", "chain"}

resToComplete ==
  /\ platform \in PipePlatforms
  /\ Len(calls) < MaxCalls
  /\ \E res \in StageInputs :
       calls' = Append(calls, resToCompleteStart("resToComplete", res))
  /\ UNCHANGED <<StartVars, platform, xhr, waits, NodeVars, history, missed, clientAborts, res0, stream>>

resToString ==
  /\ platform \in PipePlatforms
  /\ Len(calls) < MaxCalls
  /\ \E res \in StageInputs :
       calls' = Append(calls, resToStringStart(res))
  /\ UNCHANGED <<StartVars, platform, xhr, waits, NodeVars, history, missed, clientAborts, res0, stream>>

resFromJson ==
  /\ platform \in PipePlatforms
  /\ Len(calls) < MaxCalls
  /\ \E res \in StageInputs :
       calls' = Append(calls, resFromJsonCall(res))
  /\ UNCHANGED <<StartVars, platform, xhr, waits, NodeVars, history, missed, clientAborts, res0, stream>>

resOnlyOk ==
  /\ platform \in PipePlatforms
  /\ Len(calls) < MaxCalls
  /\ \E res \in StageInputs :
       calls' = Append(calls, resOnlyOkCall(res))
  /\ UNCHANGED <<StartVars, platform, xhr, waits, NodeVars, history, missed, clientAborts, res0, stream>>

resNormal ==
  /\ platform = "pipe"
  /\ Len(calls) < MaxCalls
  /\ \E res \in StageInputs :
       calls' = Append(calls, resNormalCall(res))
  /\ UNCHANGED <<StartVars, platform, xhr, waits, NodeVars, history, missed, clientAborts, res0, stream>>

\* bufferStream, onData: the stream flows while a 'data' listener is attached.
onData ==
  /\ platform \in PipePlatforms
  /\ stream.state = "open"
  /\ stream.pending # <<>>
  /\ Listening # {}
  /\ stream' = [stream EXCEPT !.pending = Tail(@),
                               !.emitted = Append(@, Head(stream.pending))]
  /\ calls' = [i \in 1..Len(calls) |->
                 IF calls[i].listening
                 THEN [calls[i] EXCEPT !.chunks = Append(@, Head(stream.pending))]
                 ELSE calls[i]]
  /\ UNCHANGED <<StartVars, platform, xhr, waits, NodeVars, history, missed, clientAborts, res0>>

\* bufferStream, onEnd, and the rest of resToComplete after the await.
onEnd ==
  /\ platform \in PipePlatforms
  /\ stream.state = "open"
  /\ stream.pending = <<>>
  /\ stream.error = NoError
  /\ Listening # {}
  /\ stream' = [stream EXCEPT !.state = "ended"]
  /\ calls' = [i \in 1..Len(calls) |->
                 IF calls[i].listening
                 THEN [calls[i] EXCEPT
                         !.listening = FALSE,
                         !.state = "done",
                         !.out = buffered(calls[i], concatChunks(calls[i].chunks))]
                 ELSE calls[i]]
  /\ UNCHANGED <<StartVars, platform, xhr, waits, NodeVars, history, missed, clientAborts, res0>>

onErrorResolvesPartial ==
  /\ platform \in PipePlatforms
  /\ stream.state = "open"
  /\ stream.error # NoError
  /\ Listening # {}
  /\ stream' = [stream EXCEPT !.state = "destroyed"]
  /\ calls' = [i \in 1..Len(calls) |->
                 IF calls[i].listening
                 THEN [calls[i] EXCEPT
                         !.listening = FALSE,
                         !.state = "done",
                         !.out = buffered(calls[i], concatChunks(calls[i].chunks))]
                 ELSE calls[i]]
  /\ UNCHANGED <<StartVars, platform, xhr, waits, NodeVars, history, missed, clientAborts, res0>>

\* bufferStream, onError: the listeners are removed, the stream is destroyed
\* and the promise of resToComplete is rejected.
onError ==
  /\ platform \in PipePlatforms
  /\ stream.state = "open"
  /\ stream.error # NoError
  /\ Listening # {}
  /\ stream' = [stream EXCEPT !.state = "destroyed"]
  /\ calls' = [i \in 1..Len(calls) |->
                 IF calls[i].listening
                 THEN [calls[i] EXCEPT !.listening = FALSE, !.state = "failed",
                                       !.err = stream.error]
                 ELSE calls[i]]
  /\ UNCHANGED <<StartVars, platform, xhr, waits, NodeVars, history, missed, clientAborts, res0>>

\* The Responses the pipeline is started from: those wait produces in Node,
\* and loaded ones whose body is already a string, a buffer or absent.
LoadedRes(complete, body) ==
  [ type       |-> "load",
    ok         |-> TRUE,
    complete   |-> complete,
    status     |-> 200,
    statusText |-> "OK",
    headers    |-> NoHeaders,
    body       |-> body ]

FirstResponses ==
  {streamRes(nodeRes) : nodeRes \in [statusCode : {200, 404}, headers : {NoHeaders}]}
    \cup {timeoutRes, clientAbortRes, remoteAbortRes}
    \cup {LoadedRes(complete, body) :
            complete \in BOOLEAN,
            body \in {NullBody, StrBody(<<>>), StrBody(<<97>>), BufBody(<<98>>)}}

InitPipe ==
  /\ platform = "pipe"
  /\ xhr = NoXhr
  /\ waits = <<>>
  /\ NodeIdle
  /\ history = <<>>
  /\ missed = <<>>
  /\ clientAborts = <<>>
  /\ StartIdle
  /\ res0 \in FirstResponses
  /\ stream \in
       IF isReadableStream(res0.body)
       THEN [pending : SeqsUpTo(ChunkValues, MaxChunks), emitted : {<<>>},
             error : {NoError, ECONNRESET}, state : {"open"}]
       ELSE {NoStream}
  /\ calls = <<>>

NextPipe ==
  \/ resToComplete
  \/ resNormal
  \/ onData
  \/ onEnd
  \/ onError

SpecPipe == InitPipe /\ [][NextPipe]_vars

(***************************************************************************)
(* A chain of stage functions, each given what the one before returned     *)
(***************************************************************************)
\* JSON-safe values that a body can carry as JSON text.
JsonValues ==
  { NullBody, BoolVal(TRUE), NumVal(0), NumVal(0 - 12),
    StrBody(<<>>), StrBody(<<233, 34>>), StrBody(<<92, 10>>),
    ArrVal(<<>>), ArrVal(<<NumVal(1), NullBody>>), ObjVal(<<>>),
    ObjVal(<< <<(<<98>>), BoolVal(FALSE)>>, <<(<<97>>), ArrVal(<<NumVal(7)>>)>> >>) }

\* The ways a stream can deliver a text in at most n chunks, none empty.
RECURSIVE Cuts(_, _)
Cuts(text, n) ==
  IF text = <<>> THEN {<<>>}
  ELSE IF n <= 1 THEN {<<text>>}
  ELSE {<<text>>} \cup
       UNION { { <<SubSeq(text, 1, k)>> \o rest : rest \in Cuts(drop(text, k), n - 1) } :
               k \in 1..(Len(text) - 1) }

\* What the streams of the chain carry: JSON texts, no text, and 'a'.
StreamTexts == {JSONstringify(x) : x \in JsonValues} \cup {<<>>, <<97>>}

\* A stream emits strings once setEncoding was called, buffers otherwise.
ChunkedTexts ==
  UNION { { [i \in 1..Len(cut) |-> StrBody(cut[i])] : cut \in Cuts(text, MaxChunks) }
            \cup { [i \in 1..Len(cut) |-> BufBody(cut[i])] : cut \in Cuts(utf8(text), MaxChunks) } :
          text \in StreamTexts }

\* Bodies around the limit of the preview.
MaxOver == 2

LongText(n) == [i \in 1..n |-> 97 + (i % 26)]

LongBodies == {StrBody(LongText(n)) : n \in {1, limit - 1, limit, limit + 1, limit + MaxOver}}

FailedRes(body) ==
  [ LoadedRes(TRUE, body) EXCEPT
      !.ok = FALSE, !.status = 500, !.statusText = "Internal Server Error" ]

ChainResponses ==
  {streamRes(nodeRes) : nodeRes \in [statusCode : {200, 500}, headers : {NoHeaders}]}
    \cup {timeoutRes, clientAbortRes, remoteAbortRes}
    \cup {LoadedRes(TRUE, body) : body \in {NullBody, StrBody(<<>>), BufBody(<<195, 169>>)}}
    \cup {FailedRes(body) : body \in LongBodies}

InitChain ==
  /\ platform = "chain"
  /\ xhr = NoXhr
  /\ waits = <<>>
  /\ NodeIdle
  /\ history = <<>>
  /\ missed = <<>>
  /\ clientAborts = <<>>
  /\ StartIdle
  /\ res0 \in ChainResponses
  /\ stream \in
       IF isReadableStream(res0.body)
       THEN [pending : ChunkedTexts, emitted : {<<>>},
             error : {NoError}, state : {"open"}]
       ELSE {NoStream}
  /\ calls = <<>>

NextChain ==
  \/ resToComplete
  \/ resToString
  \/ resFromJson
  \/ resOnlyOk
  \/ onData
  \/ onEnd

SpecChain == InitChain /\ [][NextChain]_vars

(***************************************************************************)
(* lib/xhttp-node.js: bufferedRequest, that is streamingRequest followed   *)
(* by bufferBody                                                           *)
(***************************************************************************)
streamingResponse(nodeRes) ==
  [ ok         |-> nodeRes.statusCode >= 200 /\ nodeRes.statusCode <= 299,
    status     |-> nodeRes.statusCode,
    statusText |-> StatusMessage(nodeRes.statusCode),
    reason     |-> "load",
    headers    |-> nodeRes.headers,
    body       |-> StreamBody ]

timeoutResponse ==
  [ ok         |-> FALSE,
    status     |-> 408,
    statusText |-> "Request Timeout",
    reason     |-> "timeout",
    headers    |-> NoHeaders,
    body       |-> BufBody(<<>>) ]

\* patch(value, {body})
patchBody(value, body) == [value EXCEPT !.body = body]

libConcatChunks(chunks) ==
  IF \A i \in 1..Len(chunks) : isStr(chunks[i]) THEN StrBody(joinVals(chunks))
  ELSE IF \A i \in 1..Len(chunks) : isBuffer(chunks[i]) THEN BufBody(joinVals(chunks))
  ELSE BufBody(joinVals([i \in 1..Len(chunks) |-> toBuffer(chunks[i])]))

\* bufferBody(value), up to the future that bufferStream returns.
bufferBodyStart(value) ==
  IF isBuffer(value.body) THEN Returned("bufferBody", value, value)
  ELSE IF isReadableStream(value.body) THEN Buffering("bufferBody", value)
  ELSE IF value.body.kind = "null"
  THEN Returned("bufferBody", value, patchBody(value, BufBody(<<>>)))
  ELSE Returned("bufferBody", value, patchBody(value, toBuffer(value.body)))

bufferBody ==
  /\ platform = "lib"
  /\ Len(calls) < MaxCalls
  /\ \E value \in StageInputs :
       calls' = Append(calls, bufferBodyStart(value))
  /\ UNCHANGED <<StartVars, platform, xhr, waits, NodeVars, history, missed, clientAborts, res0, stream>>

\* bufferStream of the library: onData keeps the chunk.
libOnData ==
  /\ platform = "lib"
  /\ stream.state = "open"
  /\ stream.pending # <<>>
  /\ Listening # {}
  /\ stream' = [stream EXCEPT !.pending = Tail(@),
                               !.emitted = Append(@, Head(stream.pending))]
  /\ calls' = [i \in 1..Len(calls) |->
                 IF calls[i].listening
                 THEN [calls[i] EXCEPT !.chunks = Append(@, Head(stream.pending))]
                 ELSE calls[i]]
  /\ UNCHANGED <<StartVars, platform, xhr, waits, NodeVars, history, missed, clientAborts, res0>>

\* bufferStream of the library: onEnd settles the future with the chunks
\* joined, finalizeStream removes the listeners, bufferBody patches the body.
libOnEnd ==
  /\ platform = "lib"
  /\ stream.state = "open"
  /\ stream.pending = <<>>
  /\ stream.error = NoError
  /\ Listening # {}
  /\ stream' = [stream EXCEPT !.state = "ended"]
  /\ calls' = [i \in 1..Len(calls) |->
                 IF calls[i].listening
                 THEN [calls[i] EXCEPT
                         !.listening = FALSE,
                         !.state = "done",
                         !.out = patchBody(calls[i].in, libConcatChunks(calls[i].chunks))]
                 ELSE calls[i]]
  /\ UNCHANGED <<StartVars, platform, xhr, waits, NodeVars, history, missed, clientAborts, res0>>

\* bufferStream of the library: 'error' settles the future with the error and
\* finalizeStream destroys the stream.
libOnError ==
  /\ platform = "lib"
  /\ stream.state = "open"
  /\ stream.error # NoError
  /\ Listening # {}
  /\ stream' = [stream EXCEPT !.state = "destroyed"]
  /\ calls' = [i \in 1..Len(calls) |->
                 IF calls[i].listening
                 THEN [calls[i] EXCEPT !.listening = FALSE, !.state = "failed",
                                       !.err = stream.error]
                 ELSE calls[i]]
  /\ UNCHANGED <<StartVars, platform, xhr, waits, NodeVars, history, missed, clientAborts, res0>>

\* What the response of http.request emits: buffers, since nothing has called
\* setEncoding on it before bufferBody listens.
BufferChunks == {BufBody(<<98>>), BufBody(<<195, 169>>)}

LibResponses ==
  {streamingResponse(nodeRes) : nodeRes \in [statusCode : {200, 204, 404}, headers : {NoHeaders}]}
    \cup {timeoutResponse}

InitLib ==
  /\ platform = "lib"
  /\ xhr = NoXhr
  /\ waits = <<>>
  /\ NodeIdle
  /\ history = <<>>
  /\ missed = <<>>
  /\ clientAborts = <<>>
  /\ StartIdle
  /\ res0 \in LibResponses
  /\ stream \in
       IF isReadableStream(res0.body)
       THEN [pending : SeqsUpTo(BufferChunks, MaxChunks), emitted : {<<>>},
             error : {NoError, ECONNRESET}, state : {"open"}]
       ELSE {NoStream}
  /\ calls = <<>>

NextLib ==
  \/ bufferBody
  \/ libOnData
  \/ libOnEnd
  \/ libOnError

SpecLib == InitLib /\ [][NextLib]_vars

(***************************************************************************)
(* Starting a request: req of the Node module (with the query merged into  *)
(* the URL) and streamingRequest of lib/xhttp-node.js                      *)
(***************************************************************************)
MaxEntries == 2

Undefined == [kind |-> "undefined", val |-> <<>>]

isNil(val) == val.kind \in {"null", "undefined"}

isArr(val) == val.kind = "arr"

isPrim(val) == val.kind \in {"null", "undefined", "str", "num", "bool"}

\* What URLSearchParams.append makes of a primitive value.
toText(val) ==
  CASE val.kind = "str"  -> val.val
    [] val.kind = "num"  -> IF val.val[1] < 0 THEN <<45>> \o digits(0 - val.val[1])
                            ELSE digits(val.val[1])
    [] val.kind = "bool" -> IF val.val[1] THEN TxtTrue ELSE TxtFalse
    [] OTHER             -> <<>>

\* The URLSearchParams built so far; ok is false once valid has thrown.
Search(ok, entries) == [ok |-> ok, entries |-> entries]

searchAppendOneNilAsEmpty(search, key, val) ==
  IF ~search.ok THEN search
  ELSE IF ~isPrim(val) THEN Search(FALSE, search.entries)
  ELSE Search(TRUE, Append(search.entries, <<key, toText(val)>>))

searchAppendOne(search, key, val) ==
  IF ~search.ok THEN search
  ELSE IF isNil(val) THEN search
  ELSE IF ~isPrim(val) THEN Search(FALSE, search.entries)
  ELSE Search(TRUE, Append(search.entries, <<key, toText(val)>>))

RECURSIVE searchAppendEach(_, _, _)
searchAppendEach(search, key, elems) ==
  IF elems = <<>> THEN search
  ELSE searchAppendEach(searchAppendOne(search, key, Head(elems)), key, Tail(elems))

searchAppend(search, key, val) ==
  IF isArr(val) THEN searchAppendEach(search, key, val.val)
  ELSE searchAppendOne(search, key, val)

RECURSIVE searchAssign(_, _)
searchAssign(search, query) ==
  IF query = <<>> THEN search
  ELSE searchAssign(searchAppend(search, Head(query)[1], Head(query)[2]), Tail(query))

\* Values of a query entry.
QueryVals ==
  { NullBody, Undefined, StrBody(<<>>), StrBody(<<120>>), NumVal(0), BoolVal(FALSE),
    ArrVal(<<>>), ArrVal(<<NullBody, StrBody(<<>>)>>), ArrVal(<<StrBody(<<120>>), NumVal(7)>>),
    ObjVal(<<>>) }

\* 'a', 'b', 'c'
QueryKeys == {<<97>>, <<98>>, <<99>>}

\* A query: a dict, that is entries with distinct keys, in insertion order.
Queries ==
  { q \in SeqsUpTo(QueryKeys \X QueryVals, MaxEntries) :
      \A i, j \in 1..Len(q) : i # j => q[i][1] # q[j][1] }

\* A readable stream whose pipe() throws.
ThrowingStream == [kind |-> "stream", val |-> <<0>>]

TypeError == [name |-> "TypeError", message |-> "ERR_INVALID_ARG_TYPE"]

\* Bodies a caller may pass: none, a string, a buffer, a stream, a stream
\* that fails to pipe, and a number.
StartBodies ==
  {NullBody, StrBody(<<97>>), BufBody(<<98>>), StreamBody, ThrowingStream, NumVal(42)}

\* if (isReadableStream(body)) body.pipe(req) else req.end(body): the error
\* thrown, if any.
sendBody(body) ==
  IF isReadableStream(body)
  THEN (IF body = ThrowingStream THEN Error("pipe failed") ELSE NoError)
  ELSE IF body.kind \in {"null", "str", "buf"} THEN NoError
  ELSE TypeError

\* What a starter has done: whether it opened a request, whether the body was
\* handed to it, the error thrown to the caller, the error the future was
\* settled with, whether finalizeRequest is still to run, whether the request
\* was aborted, and the query of the URL; for streamingRequest also the
\* future it returns, the events of the request it listens to and those it
\* has handled; for start the calls made on the XMLHttpRequest.
Started(opened, sent, threw, settled, wasAborted, search) ==
  [ state      |-> "called",
    opened     |-> opened,
    sent       |-> sent,
    threw      |-> threw,
    settled    |-> settled,
    finalizing |-> settled # NoError,
    aborted    |-> wasAborted,
    search     |-> search,
    future     |-> NoPromise,
    listening  |-> {},
    events     |-> <<>>,
    log        |-> <<>> ]

\* req(params) of the Node module.
req ==
  /\ platform = "start"
  /\ params.starter = "req"
  /\ started = NotStarted
  /\ LET search == searchAssign(Search(TRUE, <<>>), params.query)
         err    == sendBody(params.body)
     IN  started' =
           IF ~search.ok
           THEN Started(FALSE, FALSE, Error("expected val to satisfy test isPrim"),
                        NoError, FALSE, <<>>)
           ELSE Started(TRUE, err = NoError, err, NoError, FALSE, search.entries)
  /\ UNCHANGED <<platform, xhr, waits, NodeVars, history, missed, clientAborts, PipeVars, params>>

\* parseParams: a body that is given must be a stream, a string or a buffer.
isReadableStreamOrStringOrBuffer(value) ==
  isReadableStream(value) \/ isStr(value) \/ isBuffer(value)

abortedResponse ==
  [ ok         |-> FALSE,
    status     |-> 0,
    statusText |-> "Aborted by Remote",
    reason     |-> "abort",
    headers    |-> NoHeaders,
    body       |-> BufBody(<<>>) ]

\* future.settle(error, result): the first call settles the future, as a
\* failure when an error is given, and later calls do nothing.
settle(future, error, result) ==
  IF future.state # "pending" THEN future
  ELSE IF error # NoError THEN Rejected(error)
  ELSE Resolved(result)

\* The events of the request that streamingRequest listens to, once each.
LibEvents == {"response", "error", "timeout", "aborted"}

\* streamingRequest(params) of lib/xhttp-node.js, up to its return.
streamingRequest ==
  /\ platform = "start"
  /\ params.starter = "streamingRequest"
  /\ started = NotStarted
  /\ LET err == sendBody(params.body)
     IN  started' =
           IF params.body.kind # "null" /\ ~isReadableStreamOrStringOrBuffer(params.body)
           THEN Started(FALSE, FALSE,
                        Error("expected body to satisfy test isReadableStreamOrStringOrBuffer"),
                        NoError, FALSE, <<>>)
           ELSE [ Started(TRUE, err = NoError, NoError, err, FALSE, <<>>) EXCEPT
                    !.future = IF err = NoError THEN Pending ELSE settle(Pending, err, NoRes),
                    !.listening = LibEvents ]
  /\ UNCHANGED <<platform, xhr, waits, NodeVars, history, missed, clientAborts, PipeVars, params>>

\* finalizeRequest, run by the scheduler of the futures once the future is
\* settled: if (error) req.abort().
finalizeRequest ==
  /\ platform = "start"
  /\ started # NotStarted
  /\ started.finalizing
  /\ started' = [started EXCEPT !.finalizing = FALSE, !.aborted = TRUE]
  /\ UNCHANGED <<platform, xhr, waits, NodeVars, history, missed, clientAborts, PipeVars, params>>

\* A listener of streamingRequest has run: what it has made of the request.
handled(s, event, future, wasAborted) ==
  [ s EXCEPT
      !.listening  = @ \ {event},
      !.events     = Append(@, event),
      !.future     = future,
      !.finalizing = @ \/ (s.future.state = "pending" /\ future.state = "rejected"),
      !.aborted    = @ \/ wasAborted ]

onResponse(s, nodeRes) ==
  handled(s, "response", settle(s.future, NoError, streamingResponse(nodeRes)), FALSE)

onRequestError(s, err) ==
  handled(s, "error", settle(s.future, err, NoRes), TRUE)

onRequestTimeout(s) ==
  handled(s, "timeout", settle(s.future, NoError, timeoutResponse), FALSE)

onRequestAbortedByRemoteAsResult(s) ==
  handled(s, "aborted", settle(s.future, NoError, abortedResponse), FALSE)

onRequestAbortedByRemote(s) ==
  handled(s, "aborted", settle(s.future, abortedResponse, NoRes), FALSE)

\* The request of streamingRequest emits an event that is listened to.
LibCanEmit(event) ==
  /\ platform = "start"
  /\ started # NotStarted
  /\ event \in started.listening

LibEmitResponse ==
  /\ LibCanEmit("response")
  /\ \E nodeRes \in [statusCode : {200, 404}, headers : {NoHeaders}] :
       started' = onResponse(started, nodeRes)
  /\ UNCHANGED <<platform, xhr, waits, NodeVars, history, missed, clientAborts, PipeVars, params>>

LibEmitError ==
  /\ LibCanEmit("error")
  /\ started' = onRequestError(started, ECONNRESET)
  /\ UNCHANGED <<platform, xhr, waits, NodeVars, history, missed, clientAborts, PipeVars, params>>

LibEmitTimeout ==
  /\ LibCanEmit("timeout")
  /\ started' = onRequestTimeout(started)
  /\ UNCHANGED <<platform, xhr, waits, NodeVars, history, missed, clientAborts, PipeVars, params>>

LibEmitAborted ==
  /\ LibCanEmit("aborted")
  /\ started' = onRequestAbortedByRemote(started)
  /\ UNCHANGED <<platform, xhr, waits, NodeVars, history, missed, clientAborts, PipeVars, params>>

(***************************************************************************)
(* Starting a request in the browser: start(req, params)                   *)
(***************************************************************************)
\* The XMLHttpRequest as start drives it: the calls made on it, in order, and
\* ok, false once valid has thrown.
Driven(ok, log) == [ok |-> ok, log |-> log]

setRequestHeader(key, val) == [op |-> "setRequestHeader", key |-> key, val |-> val]

RECURSIVE sendHeaderNilAsEmpty(_, _, _)
sendHeaderNilAsEmpty(request, key, val) ==
  IF ~request.ok THEN request
  ELSE IF isNil(val) THEN Driven(TRUE, Append(request.log, setRequestHeader(key, <<>>)))
  ELSE IF isArr(val)
  THEN (IF val.val = <<>> THEN request
        ELSE sendHeaderNilAsEmpty(sendHeaderNilAsEmpty(request, key, Head(val.val)),
                                  key, ArrVal(Tail(val.val))))
  ELSE IF ~isStr(val) THEN Driven(FALSE, request.log)
  ELSE Driven(TRUE, Append(request.log, setRequestHeader(key, val.val)))

RECURSIVE sendHeader(_, _, _)
sendHeader(request, key, val) ==
  IF ~request.ok THEN request
  ELSE IF isNil(val) THEN request
  ELSE IF isArr(val)
  THEN (IF val.val = <<>> THEN request
        ELSE sendHeader(sendHeader(request, key, Head(val.val)), key, ArrVal(Tail(val.val))))
  ELSE IF ~isStr(val) THEN Driven(FALSE, request.log)
  ELSE Driven(TRUE, Append(request.log, setRequestHeader(key, val.val)))

RECURSIVE sendHead(_, _)
sendHead(request, headers) ==
  IF headers = <<>> THEN request
  ELSE sendHead(sendHeader(request, Head(headers)[1], Head(headers)[2]), Tail(headers))

\* start(req, params) of the browser module.
start ==
  /\ platform = "start"
  /\ params.starter = "start"
  /\ started = NotStarted
  /\ LET opened == Driven(TRUE, <<[op |-> "open", async |-> TRUE]>>)
         headed == sendHead(opened, params.headers)
     IN  started' =
           IF headed.ok
           THEN [ Started(TRUE, TRUE, NoError, NoError, FALSE, <<>>) EXCEPT
                    !.log = Append(headed.log, [op |-> "send", body |-> params.body]) ]
           ELSE [ Started(TRUE, FALSE, Error("expected val to satisfy test isStr"),
                          NoError, FALSE, <<>>) EXCEPT
                    !.log = headed.log ]
  /\ UNCHANGED <<platform, xhr, waits, NodeVars, history, missed, clientAborts, PipeVars, params>>

\* Values of a header: strings, lists of them (with gaps, or nested), nothing,
\* and a number, which is no header value.
HeaderVals ==
  { NullBody, Undefined, StrBody(<<>>), StrBody(<<120>>),
    ArrVal(<<>>), ArrVal(<<StrBody(<<120>>), StrBody(<<121>>)>>),
    ArrVal(<<NullBody, StrBody(<<121>>)>>),
    ArrVal(<<ArrVal(<<StrBody(<<121>>), Undefined>>), StrBody(<<120>>)>>),
    NumVal(1), ArrVal(<<StrBody(<<120>>), NumVal(1)>>) }

\* The headers of the Parameters: a dict, in insertion order.
HeaderDicts ==
  { h \in SeqsUpTo(QueryKeys \X HeaderVals, MaxEntries) :
      \A i, j \in 1..Len(h) : i # j => h[i][1] # h[j][1] }

StartParams ==
  [starter : {"req"}, query : Queries, body : StartBodies]
    \cup [starter : {"streamingRequest"}, query : {<<>>}, body : StartBodies]
    \cup [starter : {"start"}, query : {<<>>}, body : {NullBody, StrBody(<<97>>)},
          headers : HeaderDicts]

InitStart ==
  /\ platform = "start"
  /\ xhr = NoXhr
  /\ waits = <<>>
  /\ NodeIdle
  /\ history = <<>>
  /\ missed = <<>>
  /\ clientAborts = <<>>
  /\ PipeIdle
  /\ params \in StartParams
  /\ started = NotStarted

NextStart ==
  \/ req
  \/ streamingRequest
  \/ finalizeRequest
  \/ LibEmitResponse
  \/ LibEmitError
  \/ LibEmitTimeout
  \/ LibEmitAborted
  \/ start

SpecStart == InitStart /\ [][NextStart]_vars

(***************************************************************************)
(* lib/xhttp.js: the promise-based xhttp(options) with its interceptors     *)
(***************************************************************************)
MaxInterceptors == 2

\* '[]'
TxtEmptyList == <<91, 93>>

successful(request) == request.status >= 200 /\ request.status <= 299

\* parse(xhr): the response, decoded when the content type says JSON.
parse(request) ==
  IF request.json THEN JSONparse(request.response.val).val ELSE request.response

\* One call of an interceptor: its group, its place in the group and the
\* response it was given.
Intercepted(group, index, response) ==
  [group |-> group, index |-> index, response |-> response]

\* handleFailure(xhr, reject): every error interceptor is called with the
\* parsed response, then the settling function it was given, resolve or
\* reject, is called with it.
handleFailure(request, settling) ==
  LET response == parse(request)
  IN  [ request EXCEPT
          !.calls   = @ \o [i \in 1..params.errInterceptors |->
                              Intercepted("err", i, response)],
          !.promise = IF settling = "resolve" THEN done(@, response)
                      ELSE fail(@, response) ]

\* What a response interceptor returns: undefined, or a value to replace the
\* response with.
intercept(interceptor, response) ==
  IF interceptor = "replace" THEN ArrVal(<<response>>) ELSE Undefined

\* The response interceptors from the k-th on, applied to the response.
RECURSIVE applyResInterceptors(_, _, _)
applyResInterceptors(request, k, response) ==
  IF k > Len(params.resInterceptors)
  THEN [request EXCEPT !.promise = done(@, response)]
  ELSE LET result == intercept(params.resInterceptors[k], response)
           logged == [request EXCEPT !.calls = Append(@, Intercepted("res", k, response))]
       IN  applyResInterceptors(logged, k + 1,
                                IF result # Undefined THEN result ELSE response)

handleSuccess(request) == applyResInterceptors(request, 1, parse(request))

\* xhttp(options): the request is opened and sent, the promise is pending.
xhttp ==
  /\ platform = "xhttp"
  /\ started = NotStarted
  /\ started' = [ state    |-> "sent",
                  promise  |-> Pending,
                  status   |-> 0,
                  response |-> StrBody(<<>>),
                  json     |-> FALSE,
                  calls    |-> <<>>,
                  events   |-> <<>> ]
  /\ UNCHANGED <<platform, xhr, waits, NodeVars, history, missed, clientAborts, PipeVars, params>>

\* The handler assigned to onabort, onerror and ontimeout.
onfailure(type) ==
  /\ platform = "xhttp"
  /\ started # NotStarted
  /\ started.state = "sent"
  /\ started' = [ handleFailure(started, "resolve") EXCEPT
                    !.state = "ending", !.events = Append(@, type) ]
  /\ UNCHANGED <<platform, xhr, waits, NodeVars, history, missed, clientAborts, PipeVars, params>>

onabort == onfailure("abort")

onerror == onfailure("error")

ontimeout == onfailure("timeout")

\* What a server can answer with.
XhttpAnswers ==
  [status : StatusCodes, response : {StrBody(<<>>), StrBody(TxtFound)}, json : {FALSE}]
    \cup [status : StatusCodes, response : {StrBody(TxtEmptyList)}, json : {TRUE}]

\* The request has loaded: no handler of xhttp listens to 'load'.
onload ==
  /\ platform = "xhttp"
  /\ started # NotStarted
  /\ started.state = "sent"
  /\ \E answer \in XhttpAnswers :
       started' = [ started EXCEPT
                      !.state = "ending", !.events = Append(@, "load"),
                      !.status = answer.status, !.response = answer.response,
                      !.json = answer.json ]
  /\ UNCHANGED <<platform, xhr, waits, NodeVars, history, missed, clientAborts, PipeVars, params>>

\* 'loadend' follows every one of load, abort, error and timeout.
onloadend ==
  /\ platform = "xhttp"
  /\ started # NotStarted
  /\ started.state = "ending"
  /\ started' = [ (IF successful(started) THEN handleSuccess(started)
                   ELSE handleFailure(started, "reject")) EXCEPT
                    !.state = "done", !.events = Append(@, "loadend") ]
  /\ UNCHANGED <<platform, xhr, waits, NodeVars, history, missed, clientAborts, PipeVars, params>>

\* The interceptors registered before the request is made.
XhttpParams ==
  [ starter         : {"xhttp"},
    errInterceptors : 0..MaxInterceptors,
    resInterceptors : SeqsUpTo({"pass", "replace"}, MaxInterceptors) ]

InitXhttp ==
  /\ platform = "xhttp"
  /\ xhr = NoXhr
  /\ waits = <<>>
  /\ NodeIdle
  /\ history = <<>>
  /\ missed = <<>>
  /\ clientAborts = <<>>
  /\ PipeIdle
  /\ params \in XhttpParams
  /\ started = NotStarted

NextXhttp ==
  \/ xhttp
  \/ onabort
  \/ onerror
  \/ ontimeout
  \/ onload
  \/ onloadend

SpecXhttp == InitXhttp /\ [][NextXhttp]_vars

(***************************************************************************)
(* One request, made with either module                                    *)
(***************************************************************************)
Init ==
  /\ platform \in {"node", "browser"}
  /\ xhr = IF platform = "browser" THEN XhrStarted ELSE NoXhr
  /\ waits = <<>>
  /\ NodeIdle
  /\ history = <<>>
  /\ missed = <<>>
  /\ clientAborts = <<>>
  /\ StartIdle
  /\ PipeIdle

Next ==
  \/ wait
  \/ EmitResponse
  \/ EmitError
  \/ EmitTimeout
  \/ EmitAborted
  \/ EmitAbort
  \/ ClientAbort
  \/ BrowserWait
  \/ XhrLoad
  \/ XhrError
  \/ XhrTimeout
  \/ XhrAbortCall
  \/ XhrAbort

Spec == Init /\ [][Next]_vars

\* What the transport delivers of its own accord.
Transport ==
  \/ EmitResponse
  \/ EmitError
  \/ EmitTimeout
  \/ EmitAborted
  \/ XhrLoad
  \/ XhrError
  \/ XhrTimeout

\* The same request under a transport that does deliver: an event it has to
\* give is given in the end, the next-tick queue of Node is run, and the abort
\* an XMLHttpRequest has scheduled takes place.
SpecLive ==
  /\ Init
  /\ [][Next]_vars
  /\ WF_vars(Transport)
  /\ WF_vars(EmitAbort)
  /\ WF_vars(XhrAbort)

(***************************************************************************)
(* Properties of wait                                                      *)
(***************************************************************************)
Settled(p) == p.state \in {"resolved", "rejected"}

Last(seq) == seq[Len(seq)]

\* The promises wait has returned, whichever module made the request.
WaitPromises ==
  (IF promise.state = "none" THEN {} ELSE {promise})
    \cup {waits[k].outer : k \in 1..Len(waits)}

\* The Responses wait has produced.
WaitResponses == {p.value : p \in {q \in WaitPromises : q.state = "resolved"}}

\* C1: the promise returned by wait settles at most once: the first event its
\* handlers receive settles it, and no later event, of any kind and however
\* often repeated, changes the settled outcome.
C1_SettlesAtMostOnce ==
  [][ /\ Settled(promise) => promise' = promise
      /\ (promise.state = "pending" /\ history' # history) => Settled(promise')
      /\ \A k \in 1..Len(waits) :
           /\ Settled(waits[k].outer) => waits'[k].outer = waits[k].outer
           /\ ( /\ waits[k].outer.state = "pending"
                /\ history' # history
                /\ Last(history').payload = k ) => Settled(waits'[k].outer)
    ]_vars

C1_Witness ==
  /\ platform = "node"
  /\ promise.state = "resolved"
  /\ Len(history) = 3
  /\ history[2].type = "error"

\* C2: in Node the promise rejects only when the first event wait handles is
\* 'error'; when it is 'response' (any status code), 'timeout', 'abort' or
\* 'aborted' the promise is resolved to a Response and is never rejected.
C2_NodeRejectsOnlyOnError ==
  platform = "node" =>
    /\ promise.state = "rejected" => (history # <<>> /\ history[1].type = "error")
    /\ (history # <<>> /\ history[1].type # "error") =>
         /\ promise.state = "resolved"
         /\ promise.value.type =
              ( CASE history[1].type = "response" -> "load"
                  [] history[1].type = "timeout"  -> "timeout"
                  [] history[1].type = "abort"    -> "abort"
                  [] history[1].type = "aborted"  -> "aborted" )
         /\ history[1].type = "response" =>
              promise.value.status = history[1].payload.statusCode

C2_Witness ==
  /\ platform = "node"
  /\ Len(history) >= 2
  /\ history[1].type = "response"
  /\ history[1].payload.statusCode = 500
  /\ history[2].type = "error"
  /\ promise.state = "resolved"

\* C3: in the browser the promise returned by wait never rejects: whichever of
\* load, abort, error or timeout its handler receives first, it resolves to a
\* Response of that type.
C3_BrowserNeverRejects ==
  \A k \in 1..Len(waits) :
    /\ waits[k].outer.state # "rejected"
    /\ \A i \in 1..Len(history) :
         ( /\ history[i].payload = k
           /\ \A j \in 1..(i - 1) : history[j].payload # k ) =>
             /\ waits[k].outer.state = "resolved"
             /\ waits[k].outer.value.type = history[i].type

C3_Witness ==
  /\ platform = "browser"
  /\ Len(waits) >= 1
  /\ waits[1].outer.state = "resolved"
  /\ waits[1].outer.value.type = "error"

\* C4: every Response produced by wait has ok = true exactly when its type is
\* load and its status is within 200..299.
C4_OkIffLoad2xx ==
  \A r \in WaitResponses :
    r.ok <=> (r.type = "load" /\ r.status >= 200 /\ r.status <= 299)

C4_Witness ==
  \E r \in WaitResponses : r.type = "load" /\ r.status = 299 /\ r.ok

\* The caller's first abort() came before the request had emitted anything,
\* and no event was emitted while wait's handlers were not yet attached.
AbortedBeforeAnySignal ==
  /\ clientAborts # <<>>
  /\ clientAborts[1].seen = 0
  /\ missed = <<>>

\* C5: when the caller aborts before any terminal signal, wait resolves to a
\* Response with type 'abort', ok = false, status = 0 and complete = false.
C5_AbortBeforeSignal ==
  AbortedBeforeAnySignal =>
    \A p \in WaitPromises :
      Settled(p) =>
        /\ p.state = "resolved"
        /\ p.value.type = "abort"
        /\ p.value.ok = FALSE
        /\ p.value.status = 0
        /\ p.value.complete = FALSE

C5_Witness ==
  /\ AbortedBeforeAnySignal
  /\ platform = "node"
  /\ promise.state = "resolved"
  /\ history # <<>>
  /\ history[1].type = "abort"

\* C6: abort() called after wait has settled changes nothing of the result:
\* the promise keeps the outcome, Response and all, it had before the call.
C6_AbortAfterSettleInert ==
  \A i \in 1..Len(clientAborts) :
    \A k \in 1..Len(clientAborts[i].before) :
      LET was == clientAborts[i].before[k]
          now == IF platform = "node" THEN promise ELSE waits[k].outer
          old == IF platform = "node" THEN was ELSE was.outer
      IN  Settled(old) => now = old

C6_Witness ==
  /\ platform = "node"
  /\ Len(clientAborts) >= 1
  /\ clientAborts[1].before[1].state = "resolved"
  /\ Len(history) >= 2
  /\ Last(history).type = "abort"

\* C7: in Node the Response for a signal other than load has the derived
\* fields of the table: timeout gives 408 and 'request timeout', client abort
\* gives 0 and 'aborted by client', remote abort gives 0, 'aborted by remote'
\* and a type other than that of a client abort; ok is false in all three.
C7_NodeDerivedFields ==
  (platform = "node" /\ promise.state = "resolved") =>
    LET r == promise.value
        first == history[1].type
    IN  /\ first = "timeout" =>
             r.status = 408 /\ r.statusText = "request timeout" /\ ~r.ok
        /\ first = "abort" =>
             r.status = 0 /\ r.statusText = "aborted by client" /\ ~r.ok
        /\ first = "aborted" =>
             /\ r.status = 0 /\ r.statusText = "aborted by remote" /\ ~r.ok
             /\ r.type # clientAbortRes.type

C7_Witness ==
  /\ platform = "node"
  /\ promise.state = "resolved"
  /\ history[1].type = "aborted"
  /\ promise.value.statusText = "aborted by remote"

\* C8: a Response produced for a timeout, client abort or remote abort has
\* the empty string as body.
C8_EmptyBodyOnFailure ==
  \A r \in WaitResponses :
    r.type \in {"timeout", "abort", "aborted"} => r.body = StrBody(<<>>)

(***************************************************************************)
(* Properties of the body pipeline                                         *)
(***************************************************************************)
ToCompleteCalls == {i \in 1..Len(calls) : calls[i].stage = "resToComplete"}

\* C9 as claimed: resToComplete applied to a Response whose body is already a
\* string or a buffer returns a Response with complete = true and the same
\* body, whatever complete was before.
C9_MarksComplete ==
  \A i \in ToCompleteCalls :
    (isStr(calls[i].in.body) \/ isBuffer(calls[i].in.body)) =>
      /\ calls[i].state = "done"
      /\ calls[i].out.complete = TRUE
      /\ calls[i].out.body = calls[i].in.body

\* C9 as amended: resToComplete applied to a Response whose body is already a
\* string or a buffer returns that very Response: the body and complete are
\* what they were before the call.
C9_ReturnsSame ==
  \A i \in ToCompleteCalls :
    (isStr(calls[i].in.body) \/ isBuffer(calls[i].in.body)) =>
      /\ calls[i].state = "done"
      /\ calls[i].out = calls[i].in

C9_Witness ==
  \E i \in ToCompleteCalls :
    /\ calls[i].in = timeoutRes
    /\ calls[i].state = "done"
    /\ calls[i].out.complete = FALSE

AllBytes(chunks) == joinVals([i \in 1..Len(chunks) |-> toBuffer(chunks[i])])

\* C11: the load Response wait resolves to in Node has complete = false and a
\* stream as body; when resToComplete on it (the call that buffers the stream
\* from its first chunk) resolves, the result has complete = true and a body
\* that is no stream but a string or buffer holding everything the stream
\* emitted.
C11_CompleteAfterDrain ==
  /\ isReadableStream(res0.body) => (res0.type = "load" /\ res0.complete = FALSE)
  /\ \A i \in ToCompleteCalls :
       ( /\ isReadableStream(calls[i].in.body)
         /\ calls[i].late = 0
         /\ calls[i].state = "done" ) =>
           /\ calls[i].out.complete = TRUE
           /\ isStr(calls[i].out.body) \/ isBuffer(calls[i].out.body)
           /\ stream.pending = <<>>
           /\ toBuffer(calls[i].out.body).val = AllBytes(stream.emitted)

C11_Witness ==
  \E i \in ToCompleteCalls :
    /\ calls[i].in = res0
    /\ res0.complete = FALSE
    /\ calls[i].late = 0
    /\ calls[i].state = "done"
    /\ calls[i].out.complete = TRUE
    /\ calls[i].out.body = BufBody(<<195, 169, 98>>)

\* C12: when the body stream emits an error while resToComplete is buffering
\* it, the promise of resToComplete is rejected with that error and no
\* Response, partial or not, is produced then or later.
C12_DrainErrorRejects ==
  [][ /\ (stream.state = "open" /\ stream'.state = "destroyed") =>
           \A i \in Listening :
             /\ calls'[i].state = "failed"
             /\ calls'[i].err = stream.error
             /\ calls'[i].out = NoRes
      /\ \A i \in 1..Len(calls) :
           calls[i].state = "failed" => calls'[i] = calls[i]
    ]_vars

C12_Witness ==
  \E i \in ToCompleteCalls :
    /\ calls[i].state = "failed"
    /\ calls[i].err = ECONNRESET
    /\ Len(calls[i].chunks) = 1
    /\ stream.pending # <<>>
    /\ calls[i].out = NoRes

(***************************************************************************)
(* Properties of the stage functions                                       *)
(***************************************************************************)
BodyKinds == {"stream", "buf", "str", "null", "num", "bool", "arr", "obj"}

\* How far a body is along stream -> buffer -> string -> decoded value.
Rank(body) ==
  CASE body.kind = "stream" -> 0
    [] body.kind = "buf"    -> 1
    [] body.kind = "str"    -> 2
    [] OTHER                -> 3

ConvertingCalls ==
  {i \in DoneCalls : calls[i].stage \in {"resToComplete", "resToString", "resFromJson"}}

\* C13 as stated: the body of every Response is a stream, a buffer or string,
\* or a decoded value, and whatever resToComplete, resToString or resFromJson
\* returns has a body no earlier in stream -> buffer -> string -> decoded than
\* the body it was given.
C13_NeverBackward ==
  \A i \in ConvertingCalls :
    /\ calls[i].in.body.kind \in BodyKinds
    /\ calls[i].out.body.kind \in BodyKinds
    /\ Rank(calls[i].out.body) >= Rank(calls[i].in.body)

\* C13 amended: the same, except that resToString turns a null body (absent,
\* or decoded by resFromJson from the empty string) into the empty string.
C13_BackwardOnlyFromNull ==
  \A i \in ConvertingCalls :
    /\ calls[i].in.body.kind \in BodyKinds
    /\ calls[i].out.body.kind \in BodyKinds
    /\ \/ Rank(calls[i].out.body) >= Rank(calls[i].in.body)
       \/ /\ calls[i].stage = "resToString"
          /\ calls[i].in.body = NullBody
          /\ calls[i].out.body = StrBody(<<>>)

C13_Witness ==
  \E i, j, k \in ConvertingCalls :
    /\ i < j /\ j < k
    /\ calls[i].stage = "resToString"
    /\ isReadableStream(calls[i].in.body)
    /\ isStr(calls[i].out.body)
    /\ calls[j].stage = "resFromJson"
    /\ calls[j].in = calls[i].out
    /\ calls[j].out.body.kind = "obj"
    /\ calls[k].stage = "resFromJson"
    /\ calls[k].in = calls[j].out
    /\ calls[k].out.body = calls[j].out.body

OnlyOkCalls == {i \in 1..Len(calls) : calls[i].stage = "resOnlyOk"}

\* C15: resOnlyOk returns the very Response it was given when ok is true;
\* when ok is false it throws a ResErr whose res is that Response and whose
\* status and statusText are that Response's.
C15_OnlyOk ==
  \A i \in OnlyOkCalls :
    IF calls[i].in.ok
    THEN /\ calls[i].state = "done"
         /\ calls[i].out = calls[i].in
         /\ calls[i].err = NoError
    ELSE /\ calls[i].state = "failed"
         /\ calls[i].out = NoRes
         /\ calls[i].err.name = "ResErr"
         /\ calls[i].err.res = calls[i].in
         /\ calls[i].err.status = calls[i].in.status
         /\ calls[i].err.statusText = calls[i].in.statusText

C15_Witness ==
  \E i, j \in 1..Len(calls) :
    /\ i < j
    /\ calls[i].stage = "resOnlyOk"
    /\ calls[i].state = "failed"
    /\ calls[i].err.res = timeoutRes
    /\ calls[i].err.status = 408
    /\ calls[i].err.statusText = "request timeout"
    /\ calls[j].stage = "resOnlyOk"
    /\ calls[j].in = timeoutRes
    /\ calls[j].err = calls[i].err

\* Everything the stream of res0 carries, as bytes.
StreamBytes == AllBytes(stream.emitted \o stream.pending)

\* C17: when the stream body of a Response carries JSON.stringify(x) for a
\* JSON-safe x, resToString followed by resFromJson gives a Response whose
\* body equals x and whose bodyText is the text JSON.stringify(x).
C17_JsonRoundTrip ==
  \A x \in JsonValues :
    (isReadableStream(res0.body) /\ StreamBytes = utf8(JSONstringify(x))) =>
      \A i, j \in 1..Len(calls) :
        ( /\ calls[i].stage = "resToString"
          /\ calls[i].in = res0
          /\ calls[i].state = "done"
          /\ calls[j].stage = "resFromJson"
          /\ calls[j].in = calls[i].out ) =>
            /\ calls[j].state = "done"
            /\ calls[j].out.body = x
            /\ calls[j].out.bodyText = StrBody(JSONstringify(x))

C17_Witness ==
  \E i, j \in DoneCalls :
    /\ calls[i].stage = "resToString"
    /\ calls[i].in = res0
    /\ stream.emitted = <<BufBody(<<34, 195>>), BufBody(<<169, 92, 34, 34>>)>>
    /\ calls[j].stage = "resFromJson"
    /\ calls[j].in = calls[i].out
    /\ calls[j].out.body = StrBody(<<233, 34>>)
    /\ calls[j].out.bodyText = StrBody(<<34, 233, 92, 34, 34>>)

\* C20: the message of the ResErr that resOnlyOk throws for a Response with a
\* string body holds, after the status, at most the first 128 characters of
\* the body, followed by nothing or by the mark ' ...'; a shorter body is
\* shown whole, an empty one gives way to the type.
C20_PreviewBounded ==
  \A i \in OnlyOkCalls :
    (calls[i].state = "failed" /\ isStr(calls[i].in.body)) =>
      LET body    == calls[i].in.body.val
          head    == ResErrHead(calls[i].in)
          message == calls[i].err.message
          shown   == IF Len(body) <= limit THEN Len(body) ELSE limit
      IN  IF body = <<>> THEN message = head \o Text(calls[i].in.type)
          ELSE /\ Len(message) <= Len(head) + limit + Len(Ellipsis)
               /\ SubSeq(message, 1, Len(head)) = head
               /\ SubSeq(message, Len(head) + 1, Len(head) + shown) = SubSeq(body, 1, shown)
               /\ Len(message) - Len(head) - shown \in {0, Len(Ellipsis)}
               /\ Len(body) <= limit => message = head \o body

C20_Witness ==
  \E i \in OnlyOkCalls :
    /\ calls[i].state = "failed"
    /\ Len(calls[i].in.body.val) = limit + 1
    /\ Len(calls[i].err.message) = Len(ResErrHead(calls[i].in)) + limit + Len(Ellipsis)
    /\ calls[i].err.message[Len(ResErrHead(calls[i].in)) + limit] = calls[i].in.body.val[limit]

\* wait has been called and the request has not yet delivered any event.
WaitedBeforeAnyEvent == history = <<>> /\ missed = <<>>

Waiting == IF platform = "node" THEN promise.state = "pending" ELSE waits # <<>>

\* The promise of the call of wait whose handlers the request holds is settled.
InstalledSettled ==
  IF platform = "node" THEN Settled(promise)
  ELSE xhr.handler > 0 /\ Settled(waits[xhr.handler].outer)

C16_SendFailureAborts ==
  ( /\ started # NotStarted
    /\ params.starter \in {"req", "streamingRequest"}
    /\ started.opened
    /\ ~started.sent
    /\ ~started.finalizing ) => started.aborted

\* C18: bufferedRequest resolves, for a load response, to a Response whose
\* body is a Buffer, whatever the response stream emitted.
C18_BufferedBodyIsBuffer ==
  \A i \in DoneCalls :
    (calls[i].stage = "bufferBody" /\ calls[i].in.reason = "load") =>
      isBuffer(calls[i].out.body)

\* The entries of the query given to req, once req has merged them.
MergedEntries ==
  IF started # NotStarted /\ started.opened /\ params.starter = "req"
  THEN 1..Len(params.query) ELSE {}

HasPair(key, text) ==
  \E p \in 1..Len(started.search) : started.search[p] = <<key, text>>

\* C19 as stated: a query entry whose value is null or undefined appears in
\* the URL as the key with an empty value.
C19_NilEncodedAsEmpty ==
  \A e \in MergedEntries :
    isNil(params.query[e][2]) => HasPair(params.query[e][1], <<>>)

\* C19 amended: a query entry whose value is null or undefined is left out of
\* the URL, its key does not appear at all; it is the empty string that is
\* encoded as the key with an empty value.
C19_NilDropped ==
  \A e \in MergedEntries :
    /\ isNil(params.query[e][2]) =>
         \A p \in 1..Len(started.search) : started.search[p][1] # params.query[e][1]
    /\ params.query[e][2] = StrBody(<<>>) => HasPair(params.query[e][1], <<>>)

C19_Witness ==
  /\ started # NotStarted
  /\ started.opened
  /\ params.query = << <<(<<97>>), NullBody>>, <<(<<98>>), StrBody(<<>>)>> >>
  /\ started.search = << <<(<<98>>), <<>>>> >>

(***************************************************************************)
(* Further properties of wait                                              *)
(***************************************************************************)
\* C21: in Node, when 'error' is the first event wait handles, the promise is
\* rejected with that error and stays so: the 'abort' event that follows from
\* the handler's own req.abort() does not make the outcome a client-abort
\* Response.
C21_ErrorFirstRejects ==
  (platform = "node" /\ history # <<>> /\ history[1].type = "error") =>
    /\ promise.state = "rejected"
    /\ promise.value = history[1].payload
    /\ aborted

C21_Witness ==
  /\ platform = "node"
  /\ clientAborts = <<>>
  /\ Len(history) = 2
  /\ history[1].type = "error"
  /\ history[2].type = "abort"
  /\ promise.state = "rejected"
  /\ promise.value = "ECONNRESET"

\* The calls of wait that got no event: every event so far went to the
\* handlers of a later call.
Displaced == {k \in 1..Len(waits) : \A i \in 1..Len(history) : history[i].payload > k}

\* C26: in the browser a call of wait takes the handlers over from the call
\* before it: the request holds the handlers of the latest call only, a
\* promise whose call was displaced before the event stays pending, and the
\* event settles the promise of the latest call.
C26_LaterWaitDisplaces ==
  platform = "browser" =>
    /\ xhr.handler = Len(waits)
    /\ \A k \in Displaced : waits[k].outer.state = "pending"
    /\ \A i \in 1..Len(history) : waits[history[i].payload].outer.state = "resolved"

C26_Witness ==
  /\ platform = "browser"
  /\ clientAborts = <<>>
  /\ Len(waits) = 2
  /\ Len(history) = 1
  /\ history[1].type = "load"
  /\ history[1].payload = 2
  /\ waits[1].outer.state = "pending"
  /\ waits[2].outer.state = "resolved"
  /\ waits[2].outer.value.status = 200

ResolvedTo(p, res) == p.state = "resolved" /\ p.value = res

\* C28: in Node the library aborts the request from the 'error' handler only:
\* the 'timeout' handler resolves the promise and leaves the request as it
\* is, and nothing that comes later, a 'response' included, changes the
\* timeout Response.
C28_TimeoutLeavesRequest ==
  [][ platform = "node" =>
        /\ (aborted' # aborted) =>
             \/ clientAborts' # clientAborts
             \/ history' # history /\ Last(history').type = "error"
        /\ (history' # history /\ Last(history').type = "timeout") =>
             /\ aborted' = aborted
             /\ tickQueue' = tickQueue
             /\ history = <<>> => ResolvedTo(promise', timeoutRes)
        /\ ResolvedTo(promise, timeoutRes) => promise' = promise
    ]_vars

C28_Witness ==
  /\ platform = "node"
  /\ Len(history) = 2
  /\ history[1].type = "timeout"
  /\ history[2].type = "response"
  /\ ResolvedTo(promise, timeoutRes)
  /\ ~aborted
  /\ tickQueue = <<>>

(***************************************************************************)
(* Further properties of the body pipeline                                 *)
(***************************************************************************)
\* What a call has heard of the stream: the chunks emitted since it listened.
HeardOf(call) == SubSeq(stream.emitted, call.late + 1, Len(stream.emitted))

\* C23: bufferStream resolves to the chunks it received, joined in the order
\* of their arrival: to a string when every chunk was a string, and otherwise
\* to the bytes of all chunks, the string chunks converted to bytes.
C23_ConcatInOrder ==
  \A i \in ToCompleteCalls :
    (isReadableStream(calls[i].in.body) /\ calls[i].state = "done") =>
      LET heard == HeardOf(calls[i])
          body  == calls[i].out.body
      IN  /\ calls[i].chunks = heard
          /\ isStr(body) <=> \A c \in 1..Len(heard) : isStr(heard[c])
          /\ isStr(body) => body.val = joinVals(heard)
          /\ ~isStr(body) => (isBuffer(body) /\ body.val = AllBytes(heard))

C23_Witness ==
  \E i \in ToCompleteCalls :
    /\ calls[i].state = "done"
    /\ calls[i].chunks = <<StrBody(<<233>>), BufBody(<<98>>)>>
    /\ calls[i].out.body = BufBody(<<195, 169, 98>>)

\* C27: resToComplete attaches its listeners to the stream when it is called
\* and not before: a call made once the stream has emitted 'end' stays
\* pending for ever.
C27_LateCallNeverSettles ==
  [][ \A i \in 1..Len(calls') :
        /\ ( /\ i > Len(calls)
             /\ calls'[i].stage = "resToComplete"
             /\ isReadableStream(calls'[i].in.body) ) =>
               /\ calls'[i].late = Len(stream.emitted)
               /\ stream.state = "ended" => calls'[i].state = "running"
        /\ ( /\ i <= Len(calls)
             /\ calls[i].state = "running"
             /\ stream.state = "ended" ) => calls'[i] = calls[i]
    ]_vars

C27_Witness ==
  \E i \in ToCompleteCalls, j \in ToCompleteCalls :
    /\ i < j
    /\ calls[i].in = res0
    /\ calls[i].state = "done"
    /\ calls[j].in = res0
    /\ calls[j].late = Len(stream.emitted)
    /\ calls[j].late > 0
    /\ calls[j].state = "running"
    /\ stream.state = "ended"

NormalCalls == {i \in 1..Len(calls) : calls[i].stage = "resNormal"}

\* C29: resNormal of the Node module checks ok before it touches the body:
\* for a Response that is not ok it throws the ResErr at once, with no
\* listener attached to the stream and nothing drained from it; only for a
\* Response that is ok is the stream buffered, into a string.
C29_OkCheckedBeforeBody ==
  /\ \A i \in NormalCalls :
       IF calls[i].in.ok
       THEN /\ isReadableStream(calls[i].in.body) =>
                 \/ calls[i].state = "running" /\ (calls[i].listening \/ stream.state = "ended")
                 \/ calls[i].state = "done" /\ isStr(calls[i].out.body)
                 \/ calls[i].state = "failed" /\ calls[i].err = stream.error
            /\ calls[i].state = "done" => calls[i].out.ok
       ELSE /\ calls[i].state = "failed"
            /\ calls[i].err = ResErr(calls[i].in)
            /\ ~calls[i].listening
            /\ calls[i].chunks = <<>>
  /\ (isReadableStream(res0.body) /\ \A i \in 1..Len(calls) : i \in NormalCalls /\ ~calls[i].in.ok) =>
       /\ stream.emitted = <<>>
       /\ stream.state = "open"

C29_Witness ==
  /\ Len(calls) = 2
  /\ NormalCalls = {1, 2}
  /\ res0.status = 404
  /\ isReadableStream(res0.body)
  /\ calls[1].state = "failed"
  /\ calls[1].err.res = res0
  /\ calls[2].err = calls[1].err
  /\ stream.pending # <<>>
  /\ stream.emitted = <<>>

(***************************************************************************)
(* Further properties of the request starters                              *)
(***************************************************************************)
\* The strings a header value stands for, in order: itself, or the strings
\* of the elements of a list; null and undefined stand for none.
RECURSIVE Leaves(_)
Leaves(val) ==
  CASE isNil(val) -> <<>>
    [] isArr(val) -> IF val.val = <<>> THEN <<>>
                     ELSE Leaves(Head(val.val)) \o Leaves(ArrVal(Tail(val.val)))
    [] OTHER      -> <<val>>

\* The registrations that the headers ask for, in order.
RECURSIVE Registrations(_)
Registrations(headers) ==
  IF headers = <<>> THEN <<>>
  ELSE LET leaves == Leaves(Head(headers)[2])
       IN  [i \in 1..Len(leaves) |-> setRequestHeader(Head(headers)[1], leaves[i].val)]
             \o Registrations(Tail(headers))

\* Every header value is a string, a list of such values, null or undefined.
ValidHeaders(headers) ==
  \A e \in 1..Len(headers) :
    LET leaves == Leaves(headers[e][2])
    IN  \A i \in 1..Len(leaves) : isStr(leaves[i])

\* C22: start of the browser module calls open once, then registers every
\* header, then calls send once, in that order; a list-valued header is
\* registered once per element in the order of the list, and null or
\* undefined values are skipped.
C22_OpenHeadersSend ==
  (started # NotStarted /\ params.starter = "start") =>
    LET log == started.log
    IN  /\ log # <<>>
        /\ log[1].op = "open"
        /\ \A i \in 2..Len(log) : log[i].op # "open"
        /\ \A i \in 1..(Len(log) - 1) : log[i].op # "send"
        /\ ValidHeaders(params.headers) =>
             log = <<log[1]>> \o Registrations(params.headers)
                     \o <<[op |-> "send", body |-> params.body]>>

C22_Witness ==
  /\ started # NotStarted
  /\ params.starter = "start"
  /\ params.headers =
       << <<(<<98>>), ArrVal(<<ArrVal(<<StrBody(<<121>>), Undefined>>), StrBody(<<120>>)>>)>>,
          <<(<<97>>), ArrVal(<<NullBody, StrBody(<<121>>)>>)>> >>
  /\ Len(started.log) = 5
  /\ started.log[2] = setRequestHeader(<<98>>, <<121>>)
  /\ started.log[3] = setRequestHeader(<<98>>, <<120>>)
  /\ started.log[4] = setRequestHeader(<<97>>, <<121>>)
  /\ started.log[5].op = "send"

\* C30: in streamingRequest a remote abort settles the pending future as a
\* failure: its error is the aborted Response (reason 'abort', status 0, not
\* ok), it is no result, and no later event changes that.
C30_RemoteAbortFails ==
  ( /\ started # NotStarted
    /\ params.starter = "streamingRequest"
    /\ started.sent
    /\ started.events # <<>>
    /\ started.events[1] = "aborted" ) =>
      /\ started.future.state = "rejected"
      /\ started.future.value = abortedResponse
      /\ started.future.value.reason = "abort"
      /\ started.future.value.status = 0
      /\ ~started.future.value.ok

C30_Witness ==
  /\ started # NotStarted
  /\ params.starter = "streamingRequest"
  /\ started.events = <<"aborted", "response">>
  /\ started.sent
  /\ started.future = Rejected(abortedResponse)
  /\ ~started.finalizing
  /\ started.aborted

(***************************************************************************)
(* Properties of the promise-based xhttp                                   *)
(***************************************************************************)
\* The request of xhttp has ended by abort, error or timeout.
XhttpFailed ==
  /\ platform = "xhttp"
  /\ started # NotStarted
  /\ started.events # <<>>
  /\ started.events[1] \in {"abort", "error", "timeout"}

\* The places of the error interceptors called so far, in the order of the calls.
ErrCalls ==
  LET errs == SelectSeq(started.calls, LAMBDA c : c.group = "err")
  IN  [i \in 1..Len(errs) |-> errs[i].index]

\* C24: a request of xhttp that ends by abort, error or timeout rejects the
\* promise with the parsed response, and never resolves it.
C24_FailureRejects ==
  XhttpFailed =>
    /\ started.promise.state = "rejected"
    /\ started.promise.value = parse(started)

\* C25: for a request of xhttp that has failed (by abort, error or timeout,
\* or with a status outside 200..299) and is over, every registered error
\* interceptor has been called once, in the order of registration.
C25_ErrInterceptorsOnce ==
  ( /\ platform = "xhttp"
    /\ started # NotStarted
    /\ started.state = "done"
    /\ XhttpFailed \/ ~successful(started) ) =>
      ErrCalls = [i \in 1..params.errInterceptors |-> i]

====
